---- MODULE Spec2Model ----
(***************************************************************************)
(* Model of rmc's Excalidraw and Obsidian exporters                        *)
(*   src/src/rmc/exporters/excalidraw.py                                   *)
(*   src/src/rmc/exporters/obsidian.py                                     *)
(*                                                                         *)
(* Strings whose characters matter (text fragments, the Text Elements      *)
(* section) are sequences of one-character strings.  Python floats are     *)
(* integers rounded to a significand of MantissaBits bits (round to        *)
(* nearest, ties to even), so that a float subtraction can be inexact as   *)
(* it can be in Python.  Text positions and widths are carried in units of *)
(* 1/Scale so that round() meets its tie case.  The cosmetic element       *)
(* fields seed, versionNonce, updated, angle, roughness, opacity, stroke   *)
(* style and group/link fields are constants or random values that no      *)
(* operation reads; they are left out of the element records.              *)
(***************************************************************************)
EXTENDS Integers, Sequences, FiniteSets

VARIABLES pc, blocks, i, version, document, block, excalidrawElement,
          exception, note

vars == <<pc, blocks, i, version, document, block, excalidrawElement,
          exception, note>>

(***************************************************************************)
(* Bounds of the model                                                     *)
(***************************************************************************)
MaxBlocks == 3
MaxPoints == 2
MaxFragLen == 2
MaxFrags == 2
MaxElements == 3
NumIds == 2
MantissaBits == 3
Scale == 2

(***************************************************************************)
(* Program constants                                                       *)
(***************************************************************************)
SCREEN_WIDTH == 1404
XPOS_SHIFT == (SCREEN_WIDTH * Scale) \div 2
VersionSeedMin == 1
VersionSeedMax == 50
RandomIntMin == 0
RandomIntMax == 1024
DefaultFontSize == 20
LineHeightNum == 125
LineHeightDen == 100

HexPenColors ==
    [n \in {"BLACK", "WHITE", "GRAY", "RED", "GREEN", "BLUE", "YELLOW",
            "PINK", "GRAY_OVERLAP", "GREEN_2", "CYAN", "MAGENTA",
            "HIGHLIGHT", "YELLOW_2"} |->
        CASE n = "BLACK" -> "#000000"
          [] n = "WHITE" -> "#FFFFFF"
          [] n = "GRAY" -> "#D3D3D3"
          [] n = "RED" -> "#FF0000"
          [] n = "GREEN" -> "#008000"
          [] n = "BLUE" -> "#0000FF"
          [] n = "YELLOW" -> "#FFFF00"
          [] n = "PINK" -> "#FFC0CB"
          [] n = "GRAY_OVERLAP" -> "#A9A9A9"
          [] n = "GREEN_2" -> "#008000"
          [] n = "CYAN" -> "#00FFFF"
          [] n = "MAGENTA" -> "#EC008C"
          [] n = "HIGHLIGHT" -> "#000000"
          [] n = "YELLOW_2" -> "#FFFF00"]

(***************************************************************************)
(* Sequences of bounded length                                             *)
(***************************************************************************)
SeqUpTo(S, n) == UNION {[1..k -> S] : k \in 0..n}

(***************************************************************************)
(* Python number semantics                                                 *)
(***************************************************************************)
Abs(n) == IF n < 0 THEN -n ELSE n

RECURSIVE Pow2(_)
Pow2(n) == IF n = 0 THEN 1 ELSE 2 * Pow2(n - 1)

\* unit in the last place of a magnitude a
RECURSIVE Ulp(_)
Ulp(a) == IF a < Pow2(MantissaBits) THEN 1 ELSE 2 * Ulp(a \div 2)

\* round half to even of num/den, den > 0: Python's round() on a float
PyRound(num, den) ==
    LET q == num \div den
        r == num % den
    IN  IF 2 * r > den THEN q + 1
        ELSE IF 2 * r < den THEN q
        ELSE IF q % 2 = 0 THEN q ELSE q + 1

\* the float nearest to the real number n
RoundFloat(n) ==
    LET u == Ulp(Abs(n))
        m == PyRound(Abs(n), u) * u
    IN  IF n < 0 THEN -m ELSE m

\* a - b on floats
FSub(a, b) == RoundFloat(a - b)

(***************************************************************************)
(* Outcomes of a call: a returned value or a raised exception              *)
(***************************************************************************)
None == [none |-> TRUE]
Return(v) == [exc |-> "", value |-> v]
Raise(e) == [exc |-> e, value |-> None]

(***************************************************************************)
(* Element constructors                                                    *)
(***************************************************************************)
ExcalidrawFreedrawElement(id, ver) ==
    [type |-> "freedraw", x |-> 0, y |-> 0, width |-> 0, height |-> 0,
     id |-> id, version |-> ver, strokeColor |-> "#000000",
     isDeleted |-> FALSE, points |-> <<>>, pressures |-> <<>>,
     simulatePressure |-> TRUE]

ExcalidrawTextElement(id, ver, x, y, width, height, text, originalText) ==
    [type |-> "text", x |-> x, y |-> y, width |-> width, height |-> height,
     id |-> id, version |-> ver, strokeColor |-> "#000000",
     isDeleted |-> FALSE, text |-> text, originalText |-> originalText,
     fontSize |-> DefaultFontSize]

ExcalidrawDocument ==
    [type |-> "excalidraw", version |-> 2, elements |-> <<>>]

(***************************************************************************)
(* draw_stroke                                                             *)
(***************************************************************************)
\* a lookup that falls back to the default stroke color
LookupColorDefault(name) ==
    Return(IF name \in DOMAIN HexPenColors
           THEN HexPenColors[name]
           ELSE "#000000")

\* HexPenColors[name].value: an Enum lookup by name raises KeyError
LookupColor(name) ==
    IF name \in DOMAIN HexPenColors
    THEN Return(HexPenColors[name])
    ELSE Raise("KeyError")

AbsolutePoints(points) ==
    [k \in 1..Len(points) |-> <<points[k].x, points[k].y>>]

\* pressures that miss the first point
PressuresSkipFirst(points) ==
    [k \in 1..(Len(points) - 1) |-> points[k + 1].pressure]

Pressures(points) ==
    [k \in 1..Len(points) |-> points[k].pressure]

\* points left absolute
RelativePointsAbsolute(absolutePoints, x, y) == absolutePoints

RelativePoints(absolutePoints, x, y) ==
    [k \in 1..Len(absolutePoints) |->
        <<FSub(absolutePoints[k][1], x), FSub(absolutePoints[k][2], y)>>]

draw_stroke(b, id, ver) ==
    LET excalidrawStroke == ExcalidrawFreedrawElement(id, ver)
        value == b.item.value
    IN  IF value = None THEN Return(excalidrawStroke)
        ELSE
        LET erased == IF value.tool = "ERASER"
                      THEN [excalidrawStroke EXCEPT !.isDeleted = TRUE]
                      ELSE excalidrawStroke
            color == LookupColor(value.color.name)
        IN  IF color.exc # "" THEN Raise(color.exc)
            ELSE
            LET absolutePoints == AbsolutePoints(value.points)
                pressures == Pressures(value.points)
            IN  IF Len(absolutePoints) = 0 THEN Raise("IndexError")
                ELSE
                LET x == absolutePoints[1][1]
                    y == absolutePoints[1][2]
                IN  Return([erased EXCEPT
                               !.strokeColor = color.value,
                               !.x = x,
                               !.y = y,
                               !.points = RelativePoints(absolutePoints, x, y),
                               !.pressures = pressures])

(***************************************************************************)
(* draw_text                                                               *)
(***************************************************************************)
\* sep.join(list) on strings
RECURSIVE StrJoin(_, _)
StrJoin(sep, list) ==
    IF Len(list) = 0 THEN <<>>
    ELSE IF Len(list) = 1 THEN list[1]
    ELSE list[1] \o sep \o StrJoin(sep, Tail(list))

\* str.splitlines(): a line ends at each "\n"; characters after the last
\* "\n" form a final line only when there are any
RECURSIVE SplitLinesFrom(_, _, _)
SplitLinesFrom(text, cur, acc) ==
    IF Len(text) = 0
    THEN IF Len(cur) = 0 THEN acc ELSE Append(acc, cur)
    ELSE IF Head(text) = "\n"
         THEN SplitLinesFrom(Tail(text), <<>>, Append(acc, cur))
         ELSE SplitLinesFrom(Tail(text), Append(cur, Head(text)), acc)

splitlines(text) == SplitLinesFrom(text, <<>>, <<>>)

\* "".join([i[1] for i in block.value.items.items()])
JoinItems(items) ==
    StrJoin(<<>>, [k \in 1..Len(items) |-> items[k][2]])

TextHeight(text) ==
    PyRound(DefaultFontSize * LineHeightNum * Len(splitlines(text)),
            LineHeightDen)

draw_text(b, id, ver) ==
    LET text == JoinItems(b.value.items)
        x == b.value.pos_x + XPOS_SHIFT
        y == b.value.pos_y
        width == PyRound(b.value.width, Scale)
        height == TextHeight(text)
    IN  Return(ExcalidrawTextElement(id, ver,
                                     PyRound(x, Scale),
                                     PyRound(y, Scale),
                                     PyRound(width, 1),
                                     height,
                                     text,
                                     text))

(***************************************************************************)
(* Input blocks                                                            *)
(***************************************************************************)
SceneLineItemBlock(value) ==
    [kind |-> "SceneLineItemBlock", item |-> [value |-> value]]

Line(tool, colorName, points) ==
    [tool |-> tool, color |-> [name |-> colorName], points |-> points]

RootTextBlock(items, pos_x, pos_y, width) ==
    [kind |-> "RootTextBlock",
     value |-> [items |-> items, pos_x |-> pos_x, pos_y |-> pos_y,
                width |-> width]]

OtherBlock(kind) == [kind |-> kind]

Point(x, y, pressure) == [x |-> x, y |-> y, pressure |-> pressure]

Coords == {0, 1, 32}
PressureValues == {0, 255}
PointSet == {Point(x, y, p) : x \in Coords, y \in Coords, p \in PressureValues}
Tools == {"BALLPOINT_1", "ERASER"}
UnknownColorNames == {"BLUE_2"}
ColorNames == DOMAIN HexPenColors \cup UnknownColorNames

StrokeBlocks ==
    {SceneLineItemBlock(None)} \cup
    {SceneLineItemBlock(Line(t, c, ps)) :
        t \in Tools, c \in ColorNames, ps \in SeqUpTo(PointSet, MaxPoints)}

Chars == {"a", "\n"}
Fragments == SeqUpTo(Chars, MaxFragLen)
ItemsOf(frags) == [k \in 1..Len(frags) |-> <<k, frags[k]>>]
TextPositions == {0, 201}
TextWidths == {600, 601}

TextBlocks ==
    {RootTextBlock(ItemsOf(fs), px, py, w) :
        fs \in SeqUpTo(Fragments, MaxFrags),
        px \in TextPositions, py \in TextPositions, w \in TextWidths}

\* the blocks offered to the translator: one of each case of each mapper
BlockSet ==
    {SceneLineItemBlock(None),
     SceneLineItemBlock(Line("BALLPOINT_1", "RED",
                             <<Point(1, 32, 0), Point(32, 1, 255)>>)),
     SceneLineItemBlock(Line("ERASER", "BLUE_2", <<Point(0, 0, 0)>>)),
     SceneLineItemBlock(Line("BALLPOINT_1", "BLACK", <<>>)),
     RootTextBlock(ItemsOf(<<<<"a", "\n">>, <<"a">>>>), 0, 201, 601),
     OtherBlock("AuthorIdsBlock")}

Ids == 1..NumIds
DefaultVersions == {RandomIntMin, RandomIntMax}
VersionSeeds == VersionSeedMin..VersionSeedMax

(***************************************************************************)
(* blocks_to_excalidraw                                                    *)
(***************************************************************************)
\* a dispatch without the text branch
DispatchStrokeOnly(b) ==
    IF b.kind = "SceneLineItemBlock" THEN "draw_stroke" ELSE "continue"

Dispatch(b) ==
    IF b.kind = "SceneLineItemBlock" THEN "draw_stroke"
    ELSE IF b.kind = "RootTextBlock" THEN "draw_text"
    ELSE "continue"

\* the element keeps the version its constructor drew
AssignVersionKeepDefault(element, v) == element

\* excalidrawElement.version = version
AssignVersion(element, v) == [element EXCEPT !.version = v]

AppendElement(doc, element) ==
    [doc EXCEPT !.elements = Append(doc.elements, element)]

Init ==
    /\ pc = "loop"
    /\ blocks \in SeqUpTo(BlockSet, MaxBlocks)
    /\ i = 0
    /\ version \in VersionSeeds
    /\ document = ExcalidrawDocument
    /\ block = None
    /\ excalidrawElement = None
    /\ exception = ""
    /\ note = <<>>

\* the body of the loop once the mapper's outcome r is known
Mapped(r) ==
    IF r.exc = ""
    THEN /\ excalidrawElement' = AssignVersion(r.value, version')
         /\ document' = AppendElement(document, excalidrawElement')
         /\ pc' = "loop"
         /\ UNCHANGED exception
    ELSE /\ exception' = r.exc
         /\ pc' = "raised"
         /\ UNCHANGED <<excalidrawElement, document>>

NextBlock ==
    /\ pc = "loop"
    /\ i < Len(blocks)
    /\ i' = i + 1
    /\ block' = blocks[i + 1]
    /\ version' = version + 1
    /\ UNCHANGED <<blocks, note>>

StepStroke ==
    /\ NextBlock
    /\ Dispatch(block') = "draw_stroke"
    /\ \E id \in Ids, ver \in DefaultVersions :
          Mapped(draw_stroke(block', id, ver))

StepText ==
    /\ NextBlock
    /\ Dispatch(block') = "draw_text"
    /\ \E id \in Ids, ver \in DefaultVersions :
          Mapped(draw_text(block', id, ver))

StepSkip ==
    /\ NextBlock
    /\ Dispatch(block') = "continue"
    /\ UNCHANGED <<document, excalidrawElement, exception, pc>>

ReturnDocument ==
    /\ pc = "loop"
    /\ i = Len(blocks)
    /\ pc' = "done"
    /\ UNCHANGED <<blocks, i, version, document, block, excalidrawElement,
                   exception, note>>

Next == StepStroke \/ StepText \/ StepSkip \/ ReturnDocument

Spec == Init /\ [][Next]_vars

(***************************************************************************)
(* The mappers called on their own                                         *)
(***************************************************************************)
InitMapper ==
    /\ pc = "call"
    /\ block \in StrokeBlocks \cup TextBlocks
    /\ blocks = <<>>
    /\ i = 0
    /\ version = VersionSeedMin
    /\ document = ExcalidrawDocument
    /\ excalidrawElement = None
    /\ exception = ""
    /\ note = <<>>

Called(r) ==
    /\ excalidrawElement' = r.value
    /\ exception' = r.exc
    /\ pc' = "returned"
    /\ UNCHANGED <<blocks, i, version, document, block, note>>

CallDrawStroke ==
    /\ pc = "call"
    /\ block.kind = "SceneLineItemBlock"
    /\ \E id \in Ids, ver \in DefaultVersions :
          Called(draw_stroke(block, id, ver))

CallDrawText ==
    /\ pc = "call"
    /\ block.kind = "RootTextBlock"
    /\ \E id \in Ids, ver \in DefaultVersions :
          Called(draw_text(block, id, ver))

NextMapper == CallDrawStroke \/ CallDrawText

SpecMapper == InitMapper /\ [][NextMapper]_vars

(***************************************************************************)
(* excalidraw_to_obsidian                                                  *)
(***************************************************************************)
\* the loop of lines 29-31 from element k on
RECURSIVE CollectTexts(_, _, _)
CollectTexts(elements, k, text_elements) ==
    IF k > Len(elements) THEN text_elements
    ELSE CollectTexts(elements, k + 1,
                      IF elements[k].type = "text"
                      THEN Append(text_elements, elements[k].text)
                      ELSE text_elements)

\* texts joined by a single newline
excalidraw_to_obsidian_newline(doc) ==
    StrJoin(<<"\n">>, CollectTexts(doc.elements, 1, <<>>))

\* the {text_elements} field of the template
excalidraw_to_obsidian(doc) ==
    StrJoin(<<"\n", "\n">>, CollectTexts(doc.elements, 1, <<>>))

ElementTexts == {<<>>, <<"a">>, <<"b", "\n", "c">>}

DocumentElements ==
    {ExcalidrawFreedrawElement(1, 1)} \cup
    {ExcalidrawTextElement(1, 1, 0, 0, 0, TextHeight(t), t, t) :
        t \in ElementTexts}

InitObsidian ==
    /\ pc = "call"
    /\ \E es \in SeqUpTo(DocumentElements, MaxElements) :
          document = [ExcalidrawDocument EXCEPT !.elements = es]
    /\ block = None
    /\ blocks = <<>>
    /\ i = 0
    /\ version = VersionSeedMin
    /\ excalidrawElement = None
    /\ exception = ""
    /\ note = <<>>

CallExcalidrawToObsidian ==
    /\ pc = "call"
    /\ note' = excalidraw_to_obsidian(document)
    /\ pc' = "returned"
    /\ UNCHANGED <<blocks, i, version, document, block, excalidrawElement,
                   exception>>

NextObsidian == CallExcalidrawToObsidian

SpecObsidian == InitObsidian /\ [][NextObsidian]_vars

(***************************************************************************)
(* Properties                                                              *)
(***************************************************************************)
IsStroke(b) == b.kind = "SceneLineItemBlock"
IsText(b) == b.kind = "RootTextBlock"
IsSupported(b) == IsStroke(b) \/ IsText(b)
IsTextElement(e) == e.type = "text"
Max(a, b) == IF a > b THEN a ELSE b

\* a + b on floats, as a reader of the element adds position and point
FAdd(a, b) == RoundFloat(a + b)

\* the real number n is a float
IsFloat(n) == RoundFloat(n) = n

\* the points of a stroke block, none when it carries no inner value
InputPoints(b) == IF b.item.value = None THEN <<>> ELSE b.item.value.points

\* a mapper called on its own has returned an element for a stroke block
StrokeReturned == pc = "returned" /\ IsStroke(block) /\ exception = ""

\* a mapper called on its own has returned an element for a text block
TextReturned == pc = "returned" /\ IsText(block) /\ exception = ""

\* the translation has ended, by returning the document or by raising
Ended == pc \in {"done", "raised"}

\* C1: in the returned document every element's version is strictly below
\* the next element's version
C1_MonotonicVersions ==
    pc = "done" =>
        \A j \in 1..(Len(document.elements) - 1) :
            document.elements[j].version < document.elements[j + 1].version

\* a stroke, an unsupported block and a text were translated: two elements
\* of different kinds whose versions are two apart
C1_Witness ==
    /\ pc = "done"
    /\ Len(document.elements) = 2
    /\ document.elements[1].type = "freedraw"
    /\ document.elements[2].type = "text"
    /\ document.elements[2].version = document.elements[1].version + 2

\* C2 as stated: every stroke element has points[0] = (0,0) and adding the
\* element's position to points[k] gives back input point k
C2_Original ==
    StrokeReturned =>
        LET e == excalidrawElement
            pts == InputPoints(block)
        IN  /\ Len(e.points) >= 1
            /\ e.points[1] = <<0, 0>>
            /\ \A k \in 1..Len(pts) :
                  /\ FAdd(e.x, e.points[k][1]) = pts[k].x
                  /\ FAdd(e.y, e.points[k][2]) = pts[k].y

\* C2 amended: an element made from a block without inner value has no
\* points; any other stroke element sits at the first input point, has
\* points[0] = (0,0) and points[k] = the float difference of input point k
\* and the element's position, in input order, so that adding the position
\* back gives input point k whenever that difference is exact
C2_StrokeRelativity ==
    StrokeReturned =>
        LET e == excalidrawElement
            pts == InputPoints(block)
        IN  IF block.item.value = None
            THEN e.points = <<>>
            ELSE /\ Len(e.points) = Len(pts)
                 /\ e.x = pts[1].x
                 /\ e.y = pts[1].y
                 /\ e.points[1] = <<0, 0>>
                 /\ \A k \in 1..Len(pts) :
                       /\ e.points[k][1] = FSub(pts[k].x, e.x)
                       /\ e.points[k][2] = FSub(pts[k].y, e.y)
                       /\ IsFloat(pts[k].x - e.x) =>
                             FAdd(e.x, e.points[k][1]) = pts[k].x
                       /\ IsFloat(pts[k].y - e.y) =>
                             FAdd(e.y, e.points[k][2]) = pts[k].y

\* a stroke of two points away from the origin whose second point differs
\* from the first in both coordinates, exactly in x and inexactly in y
C2_Witness ==
    /\ StrokeReturned
    /\ Len(excalidrawElement.points) = 2
    /\ excalidrawElement.x # 0
    /\ excalidrawElement.points[2][1] # 0
    /\ excalidrawElement.points[2][2] # 0
    /\ IsFloat(InputPoints(block)[2].x - excalidrawElement.x)
    /\ ~IsFloat(InputPoints(block)[2].y - excalidrawElement.y)

\* the number of lines of a text: one per "\n", and one more for the
\* characters after the last "\n" when there are any
LineCount(text) ==
    Cardinality({k \in 1..Len(text) : text[k] = "\n"})
    + (IF Len(text) > 0 /\ text[Len(text)] # "\n" THEN 1 ELSE 0)

\* C3: a text element's height is round(20 * 1.25 * max(1, lineCount(text)))
\* where text is the concatenation of the block's fragments
C3_TextHeight ==
    TextReturned =>
        /\ excalidrawElement.text = JoinItems(block.value.items)
        /\ excalidrawElement.height =
              PyRound(DefaultFontSize * LineHeightNum
                        * Max(1, LineCount(excalidrawElement.text)),
                      LineHeightDen)

\* the blocks among the first n whose mapper returns an element
MappableUpTo(n) ==
    {j \in 1..n :
        /\ IsSupported(blocks[j])
        /\ IsStroke(blocks[j]) => draw_stroke(blocks[j], 1, 1).exc = ""}

\* C4: a block whose mapping fails does not abort the translation: it ends
\* by returning a document that holds an element for every block that can be
\* mapped
C4_FailureContained ==
    Ended =>
        /\ pc = "done"
        /\ Len(document.elements) = Cardinality(MappableUpTo(Len(blocks)))

\* the block just taken is a stroke block whose color name is not in the
\* palette
UnknownColorCase ==
    /\ i >= 1
    /\ IsStroke(blocks[i])
    /\ blocks[i].item.value # None
    /\ blocks[i].item.value.color.name \notin DOMAIN HexPenColors

\* no element was appended for block i: the document holds one element per
\* supported block before it
NothingAppendedForCurrent ==
    Len(document.elements) =
        Cardinality({j \in 1..(i - 1) : IsSupported(blocks[j])})

C6_UniqueIds ==
    pc = "done" =>
        \A j, k \in 1..Len(document.elements) :
            j # k => document.elements[j].id # document.elements[k].id

\* C7: an unsupported block never raises, and the returned document holds
\* exactly one element per supported block, in input order: the stroke
\* mapper's freedraw element for a stroke block and the text mapper's text
\* element for a text block, carrying the version the translator assigned
C7_SkipsUnsupported ==
    /\ (pc = "raised" => IsSupported(blocks[i]))
    /\ pc = "done" =>
          LET sup == SelectSeq(blocks, IsSupported)
              els == document.elements
          IN  /\ Len(els) = Len(sup)
              /\ \A j \in 1..Len(sup) :
                    /\ IsStroke(sup[j]) =>
                          /\ els[j].type = "freedraw"
                          /\ els[j] = draw_stroke(sup[j], els[j].id,
                                                  els[j].version).value
                    /\ IsText(sup[j]) =>
                          /\ els[j].type = "text"
                          /\ els[j] = draw_text(sup[j], els[j].id,
                                                els[j].version).value

\* a text, an unsupported block and a stroke were translated, in this order
C7_Witness ==
    /\ pc = "done"
    /\ Len(blocks) = 3
    /\ IsText(blocks[1])
    /\ ~IsSupported(blocks[2])
    /\ IsStroke(blocks[3])
    /\ Len(document.elements) = 2

\* C8: a stroke block with an inner value of a known color and zero points
\* gives a stroke element without points, pressures or anchor
C8_EmptyStroke ==
    (/\ pc = "returned"
     /\ IsStroke(block)
     /\ block.item.value # None
     /\ block.item.value.color.name \in DOMAIN HexPenColors
     /\ Len(block.item.value.points) = 0)
    => /\ exception = ""
       /\ excalidrawElement.points = <<>>
       /\ excalidrawElement.pressures = <<>>
       /\ excalidrawElement.x = 0
       /\ excalidrawElement.y = 0

\* the texts of the text-kind elements of a document, in element order
TextsOf(doc) ==
    LET ts == SelectSeq(doc.elements, IsTextElement)
    IN  [k \in 1..Len(ts) |-> ts[k].text]

\* where text j starts in a section of texts separated by two characters
RECURSIVE Offset(_, _)
Offset(texts, j) ==
    IF j = 1 THEN 0 ELSE Offset(texts, j - 1) + Len(texts[j - 1]) + 2

\* the section is the texts in order with "\n\n" between consecutive ones
SectionHolds(section, texts) ==
    LET n == Len(texts)
    IN  /\ Len(section) = IF n = 0 THEN 0 ELSE Offset(texts, n) + Len(texts[n])
        /\ \A j \in 1..n :
              LET o == Offset(texts, j)
              IN  /\ SubSeq(section, o + 1, o + Len(texts[j])) = texts[j]
                  /\ j < n =>
                        /\ section[o + Len(texts[j]) + 1] = "\n"
                        /\ section[o + Len(texts[j]) + 2] = "\n"

\* C9: the Text Elements section is the texts of the text-kind elements in
\* element order, one blank line between consecutive texts, nothing from
\* other elements; the call leaves the document as it was
C9_TextSection ==
    /\ [](pc = "returned" => SectionHolds(note, TextsOf(document)))
    /\ [][document' = document]_vars

\* a document with a text, a stroke and a second, non-empty text was wrapped
C9_Witness ==
    /\ pc = "returned"
    /\ Len(document.elements) = 3
    /\ document.elements[1].type = "text"
    /\ document.elements[2].type = "freedraw"
    /\ document.elements[3].type = "text"
    /\ Len(document.elements[3].text) > 0

\* C10: a stroke element has as many pressures as points, and pressures[i]
\* is the pressure of input point i
C10_PressureAlignment ==
    StrokeReturned =>
        LET e == excalidrawElement
            pts == InputPoints(block)
        IN  /\ Len(e.pressures) = Len(e.points)
            /\ Len(e.pressures) = Len(pts)
            /\ \A k \in 1..Len(pts) : e.pressures[k] = pts[k].pressure

\* a stroke of two points with different pressures
C10_Witness ==
    /\ StrokeReturned
    /\ Len(excalidrawElement.pressures) = 2
    /\ excalidrawElement.pressures[1] # excalidrawElement.pressures[2]

====
